---- MODULE Spec2Model ----
(***************************************************************************)
(* Model of the DevOps assistant front end: the App component's request    *)
(* lifecycle (src/App.tsx), the result panel with its tab and clipboard    *)
(* button, and the analysis client (src/services/geminiService.ts).        *)
(*                                                                         *)
(* Strings whose content is inspected are sequences: the snippet text is a *)
(* sequence of characters, a response text a sequence of lexical tokens,   *)
(* and a message a sequence of the literal and interpolated parts of its   *)
(* template.                                                               *)
(***************************************************************************)
EXTENDS Integers, Sequences, FiniteSets, TLC

\* ---- bounds of the model ----
MaxLen == 2
MaxInflight == 2
MaxTimers == 2

\* ---- program constants ----
CopyDelayMs == 2000
\* granularity of the modelled clock
TickMs == CopyDelayMs \div 2

\* ./constants is imported by App.tsx; only its first element and its
\* membership matter to the controller
SUPPORTED_FILE_TYPES == <<"YAML", "Dockerfile">>

Chars == {"a", " "}
Whitespace == {" "}

RECURSIVE SeqsUpTo(_, _)
SeqsUpTo(S, n) ==
    IF n = 0 THEN {<<>>}
    ELSE LET shorter == SeqsUpTo(S, n - 1)
         IN  shorter \cup {Append(s, c) : s \in shorter, c \in S}

Snippets == SeqsUpTo(Chars, MaxLen)

\* ---- String.prototype.trim ----
RECURSIVE stripLeft(_, _)
stripLeft(s, W) ==
    IF s # <<>> /\ Head(s) \in W THEN stripLeft(Tail(s), W) ELSE s

RECURSIVE stripRight(_, _)
stripRight(s, W) ==
    IF s # <<>> /\ s[Len(s)] \in W
    THEN stripRight(SubSeq(s, 1, Len(s) - 1), W)
    ELSE s

trimIdentity(s) == s

trim(s) == stripRight(stripLeft(s, Whitespace), Whitespace)

\* ---- JSON values a response can carry ----
Fields == {"isValid", "errors", "correctedCode", "bestPractices"}

ErrorDetail3 == [lineNumber |-> 3, error |-> "Bad indent", explanation |-> "..."]

Value(kind, has, isValid, errors) ==
    [kind |-> kind, has |-> has, isValid |-> isValid, errors |-> errors,
     correctedCode |-> IF "correctedCode" \in has THEN "fixed" ELSE "",
     bestPractices |-> IF "bestPractices" \in has THEN <<"p1">> ELSE <<>>]

\* JavaScript null
NullValue == Value("null", {}, FALSE, <<>>)

\* a falsy primitive such as 0, false or ""
FalsyValue == Value("falsy", {}, FALSE, <<>>)

\* objects with all four fields of AnalysisResponse
FullValues ==
    {Value("object", Fields, v, e) : v \in BOOLEAN, e \in {<<>>, <<ErrorDetail3>>}}

\* objects that parse but lack fields of AnalysisResponse
PartialValues ==
    {Value("object", {}, FALSE, <<>>),
     Value("object", {"isValid"}, FALSE, <<>>),
     Value("object", {"isValid"}, TRUE, <<>>)}

JsonValues == FullValues \cup PartialValues \cup {NullValue, FalsyValue}

IsFull(v) == v.kind = "object" /\ v.has = Fields

\* ---- response text ----
Tok(t, v) == [t |-> t, v |-> v]
FenceJson == Tok("fenceJson", NullValue)
Fence == Tok("fence", NullValue)
Ws == Tok("ws", NullValue)
Garbage == Tok("garbage", NullValue)
Json(v) == Tok("json", v)

WsTokens == {Ws}

\* jsonText.replace: a leading json fence with the whitespace after it, and
\* a trailing fence, are removed
stripFences(s) ==
    LET a == IF s # <<>> /\ Head(s) = FenceJson
             THEN stripLeft(Tail(s), WsTokens) ELSE s
    IN  IF a # <<>> /\ a[Len(a)] = Fence THEN SubSeq(a, 1, Len(a) - 1) ELSE a

\* thrown values: isError is "instanceof Error", message the parts of its
\* description (.message of an Error)
Thrown(isError, message) == [isError |-> isError, message |-> message]
NotThrown == Thrown(FALSE, <<>>)

\* JSON.parse: whitespace around exactly one value, else a SyntaxError
JSONparse(s) ==
    LET body == stripRight(stripLeft(s, WsTokens), WsTokens)
    IN  IF Len(body) = 1 /\ body[1].t = "json"
        THEN [ok |-> TRUE, value |-> body[1].v, thrown |-> NotThrown]
        ELSE [ok |-> FALSE, value |-> NullValue,
              thrown |-> Thrown(TRUE, <<"Unexpected token">>)]

\* ---- what ai.models.generateContent and response.text can do ----
Outcome(kind, thrown, text) == [kind |-> kind, thrown |-> thrown, text |-> text]

FencedValue == Value("object", Fields, FALSE, <<ErrorDetail3>>)

ResponseTexts ==
    {<<Json(v)>> : v \in JsonValues}
    \cup {<<FenceJson, Ws, Json(FencedValue), Ws, Fence>>,
          <<Ws, Json(FencedValue), Ws>>,
          <<Fence, Ws, Json(FencedValue), Ws, Fence>>}
    \cup {<<Garbage>>, <<>>, <<FenceJson>>}

ServiceOutcomes ==
    {Outcome("throw", Thrown(TRUE, <<"fetch failed">>), <<>>),
     Outcome("throw", Thrown(FALSE, <<"quota">>), <<>>),
     Outcome("noText", NotThrown, <<>>)}
    \cup {Outcome("text", NotThrown, t) : t \in ResponseTexts}

\* ---- analyzeCode ----
Settled(status, value, thrown, cause) ==
    [status |-> status, value |-> value, thrown |-> thrown, cause |-> cause]

wrapErrorGeneric(e) ==
    Thrown(TRUE, <<"An unknown error occurred while analyzing the code.">>)

\* the catch block of analyzeCode
wrapError(e) ==
    IF e.isError
    THEN Thrown(TRUE, <<"Failed to analyze code: ">> \o e.message)
    ELSE Thrown(TRUE, <<"An unknown error occurred while analyzing the code.">>)

\* the try block of analyzeCode: the value returned or the value thrown
tryAnalyze(o) ==
    IF o.kind = "throw" THEN [ok |-> FALSE, value |-> NullValue, thrown |-> o.thrown]
    ELSE IF o.kind = "noText"
    THEN [ok |-> FALSE, value |-> NullValue,
          thrown |-> Thrown(TRUE, <<"Cannot read properties of undefined (reading trim)">>)]
    ELSE JSONparse(stripFences(stripRight(stripLeft(o.text, WsTokens), WsTokens)))

analyzeCode(o) ==
    LET r == tryAnalyze(o)
    IN  IF r.ok
        THEN Settled("fulfilled", r.value, NotThrown, NotThrown)
        ELSE Settled("rejected", NullValue, wrapError(r.thrown), r.thrown)

\* ---- the App component ----
VARIABLES
    code,            \* useState code
    fileType,        \* useState fileType
    analysisResult,  \* useState analysisResult
    isLoading,       \* useState isLoading
    error,           \* useState error; <<>> is null
    inflight,        \* pending analyzeCode calls, each with its arguments
    activeTab,       \* useState activeTab of AnalysisResult
    copied,          \* useState copied of the mounted CopyToClipboardButton
    timers,          \* remaining ms of that button's pending setTimeout callbacks
    clipboard,       \* navigator.clipboard content
    lastOp,          \* history: the operation that produced this state, and for
                     \* a click on Validate the phase it was made in
    settled,         \* history: how the call of the current cycle settled
    copyAge          \* history: ms since the last copy on the mounted button, capped

vars == <<code, fileType, analysisResult, isLoading, error, inflight, activeTab,
          copied, timers, clipboard, lastOp, settled, copyAge>>

NullMsg == <<>>
NoAge == -1
Tabs == {"errors", "corrected", "practices"}

AdvisoryMsg ==
    <<"The model indicated an issue but didn't provide specific errors. Try rephrasing your code or checking for subtle problems.">>

Call(c, t) == [code |-> c, fileType |-> t]
NoSettle == [status |-> "none", value |-> NullValue,
             thrown |-> NotThrown, cause |-> NotThrown]
Op(op, from) == [op |-> op, from |-> from]

\* disabled attribute of the Validate button
ValidateDisabledNoLoading(c, l) == trim(c) = <<>>

ValidateDisabled(c, l) == l \/ trim(c) = <<>>

\* what AnalysisResult renders for the given props and tab; "crash" is the
\* TypeError of result.errors.length on a result without errors, which
\* unmounts the whole tree
ViewResultFirst(l, r, e, tab) ==
    IF l THEN "spinner"
    ELSE IF r.kind \in {"null", "falsy"} /\ e # NullMsg THEN "error"
    ELSE IF r.kind \in {"null", "falsy"} THEN "placeholder"
    ELSE IF "errors" \notin r.has THEN "crash"
    ELSE IF "isValid" \in r.has /\ r.isValid THEN "success"
    ELSE "tabs"

ViewOf(l, r, e, tab) ==
    IF l THEN "spinner"
    ELSE IF e # NullMsg THEN "error"
    ELSE IF r.kind \in {"null", "falsy"} THEN "placeholder"
    ELSE IF "errors" \notin r.has THEN "crash"
    ELSE IF "isValid" \in r.has /\ r.isValid THEN "success"
    ELSE "tabs"

View == ViewOf(isLoading, analysisResult, error, activeTab)

\* the CopyToClipboardButton exists only inside the corrected-code tab
CopyMountedIn(l, r, e, tab) == ViewOf(l, r, e, tab) = "tabs" /\ tab = "corrected"

CopyMounted == CopyMountedIn(isLoading, analysisResult, error, activeTab)

PhaseOf(l, r, e) ==
    IF l THEN "Loading"
    ELSE IF r = NullValue /\ e = NullMsg THEN "Idle"
    ELSE IF e = NullMsg THEN "ResolvedSuccess"
    ELSE IF r = NullValue THEN "ResolvedError"
    ELSE "ResolvedBoth"

Phase == PhaseOf(isLoading, analysisResult, error)

Init ==
    /\ code = <<>>
    /\ fileType = SUPPORTED_FILE_TYPES[1]
    /\ analysisResult = NullValue
    /\ isLoading = FALSE
    /\ error = NullMsg
    /\ inflight = <<>>
    /\ activeTab = "errors"
    /\ copied = FALSE
    /\ timers = <<>>
    /\ clipboard = ""
    /\ lastOp = Op("init", "")
    /\ settled = NoSettle
    /\ copyAge = NoAge

\* state of the CopyToClipboardButton after a step: unmounting discards its
\* state, and the callbacks of a discarded instance no longer have an effect
CopyButtonKept ==
    IF CopyMountedIn(isLoading', analysisResult', error', activeTab')
    THEN UNCHANGED <<copied, timers, copyAge>>
    ELSE copied' = FALSE /\ timers' = <<>> /\ copyAge' = NoAge

\* ---- handleValidate ----
LoadingStartKeepError == [isLoading |-> TRUE, error |-> error, analysisResult |-> NullValue]

\* the three state updates made before the call
LoadingStart == [isLoading |-> TRUE, error |-> NullMsg, analysisResult |-> NullValue]

handleValidate ==
    IF trim(code) = <<>>
    THEN UNCHANGED <<isLoading, error, analysisResult, inflight>>
    ELSE /\ isLoading' = LoadingStart.isLoading
         /\ error' = LoadingStart.error
         /\ analysisResult' = LoadingStart.analysisResult
         /\ inflight' = Append(inflight, Call(code, fileType))

\* a click on the Validate button; a disabled button dispatches no event.
\* The state updates of a click handler are rendered before the next event is
\* dispatched, so the disabled attribute is that of the current state.
ClickValidate ==
    /\ View # "crash"
    /\ ValidateDisabled(code, isLoading) \/ Len(inflight) < MaxInflight
    /\ IF ValidateDisabled(code, isLoading)
       THEN UNCHANGED <<isLoading, error, analysisResult, inflight>>
       ELSE handleValidate
    /\ lastOp' = Op("validate", Phase)
    /\ settled' = IF ValidateDisabled(code, isLoading) THEN settled ELSE NoSettle
    /\ UNCHANGED <<code, fileType, activeTab, clipboard>>
    /\ CopyButtonKept

\* the condition evaluated on the resolved value: a TypeError when a property
\* of null or of undefined is read, else whether the advisory applies
inspectResult(v) ==
    IF v.kind = "null"
    THEN [advisory |-> FALSE,
          thrown |-> Thrown(TRUE, <<"Cannot read properties of null (reading isValid)">>)]
    ELSE IF "isValid" \in v.has /\ ~v.isValid
    THEN IF "errors" \notin v.has
         THEN [advisory |-> FALSE,
               thrown |-> Thrown(TRUE, <<"Cannot read properties of undefined (reading length)">>)]
         ELSE [advisory |-> Len(v.errors) = 0, thrown |-> NotThrown]
    ELSE [advisory |-> FALSE, thrown |-> NotThrown]

catchMessageNone(err) == NullMsg

\* the catch block of handleValidate
catchMessage(err) ==
    IF err.isError
    THEN <<"An error occurred: ">> \o err.message
         \o <<". Please check the console for more details.">>
    ELSE <<"An unknown error occurred. Please try again.">>

\* the error state after the try/catch, e being the state before it
errorAfter(r, e) ==
    IF r.status = "rejected" THEN catchMessage(r.thrown)
    ELSE LET c == inspectResult(r.value)
         IN  IF c.thrown # NotThrown THEN catchMessage(c.thrown)
             ELSE IF c.advisory THEN AdvisoryMsg
             ELSE e

RemoveAt(s, i) == SubSeq(s, 1, i - 1) \o SubSeq(s, i + 1, Len(s))

\* the pending call i settles with outcome o and handleValidate resumes; no
\* event handler runs between the state updates of the continuation
Settle(i, o) ==
    LET r == analyzeCode(o)
    IN  /\ analysisResult' = IF r.status = "fulfilled" THEN r.value ELSE analysisResult
        /\ error' = errorAfter(r, error)
        /\ isLoading' = FALSE
        /\ inflight' = RemoveAt(inflight, i)
        /\ settled' = r
        /\ lastOp' = Op("settle", "")
        /\ UNCHANGED <<code, fileType, activeTab, clipboard>>
        /\ CopyButtonKept

SettleAny == \E i \in DOMAIN inflight : \E o \in ServiceOutcomes : Settle(i, o)

\* ---- CodeInput ----
SetCodeAbort(c) ==
    /\ View # "crash"
    /\ code' = c
    /\ isLoading' = FALSE
    /\ lastOp' = Op("setCode", "")
    /\ UNCHANGED <<fileType, analysisResult, error, inflight, activeTab,
                   clipboard, settled>>
    /\ CopyButtonKept

\* textarea onChange, and reader.onload of an uploaded file
SetCode(c) ==
    /\ View # "crash"
    /\ code' = c
    /\ lastOp' = Op("setCode", "")
    /\ UNCHANGED <<fileType, analysisResult, isLoading, error, inflight, activeTab,
                   clipboard, settled>>
    /\ CopyButtonKept

SetFileType(t) ==
    /\ View # "crash"
    /\ fileType' = t
    /\ lastOp' = Op("setFileType", "")
    /\ UNCHANGED <<code, analysisResult, isLoading, error, inflight, activeTab,
                   clipboard, settled>>
    /\ CopyButtonKept

\* ---- AnalysisResult ----
SelectTab(t) ==
    /\ View = "tabs"
    /\ activeTab' = t
    /\ lastOp' = Op("selectTab", "")
    /\ UNCHANGED <<code, fileType, analysisResult, isLoading, error, inflight,
                   clipboard, settled>>
    /\ CopyButtonKept

\* ---- CopyToClipboardButton ----
handleCopy ==
    /\ CopyMounted
    /\ Len(timers) < MaxTimers
    /\ clipboard' = analysisResult.correctedCode
    /\ copied' = TRUE
    /\ timers' = Append(timers, CopyDelayMs)
    /\ copyAge' = 0
    /\ lastOp' = Op("copy", "")
    /\ UNCHANGED <<code, fileType, analysisResult, isLoading, error, inflight,
                   activeTab, settled>>

\* the oldest pending timeout is due: () => setCopied(false)
TimerFire ==
    /\ timers # <<>>
    /\ timers[1] = 0
    /\ copied' = FALSE
    /\ timers' = Tail(timers)
    /\ lastOp' = Op("timer", "")
    /\ UNCHANGED <<code, fileType, analysisResult, isLoading, error, inflight,
                   activeTab, clipboard, settled, copyAge>>

\* time passes while timeouts are pending and none is due
Tick ==
    /\ timers # <<>>
    /\ \A i \in DOMAIN timers : timers[i] >= TickMs
    /\ timers' = [i \in DOMAIN timers |-> timers[i] - TickMs]
    /\ copyAge' = IF copyAge + TickMs > CopyDelayMs THEN CopyDelayMs ELSE copyAge + TickMs
    /\ lastOp' = Op("tick", "")
    /\ UNCHANGED <<code, fileType, analysisResult, isLoading, error, inflight,
                   activeTab, copied, clipboard, settled>>

Next ==
    \/ ClickValidate
    \/ SettleAny
    \/ \E c \in Snippets : SetCode(c)
    \/ \E i \in DOMAIN SUPPORTED_FILE_TYPES : SetFileType(SUPPORTED_FILE_TYPES[i])
    \/ \E t \in Tabs : SelectTab(t)
    \/ handleCopy
    \/ TimerFire
    \/ Tick

Spec == Init /\ [][Next]_vars

\* a pending call settles: the promise of analyzeCode fulfils or rejects
FairSpec == Spec /\ WF_vars(SettleAny)

TypeOK ==
    /\ code \in Snippets
    /\ fileType \in {SUPPORTED_FILE_TYPES[i] : i \in DOMAIN SUPPORTED_FILE_TYPES}
    /\ analysisResult \in JsonValues
    /\ isLoading \in BOOLEAN
    /\ Len(inflight) <= MaxInflight
    /\ activeTab \in Tabs
    /\ copied \in BOOLEAN
    /\ Len(timers) <= MaxTimers

\* ---- properties ----
IsBlank(s) == \A i \in DOMAIN s : s[i] \in Whitespace

\* message msg contains the parts d, in order and adjacent
Embeds(msg, d) ==
    /\ d # <<>>
    /\ \E i \in 0..(Len(msg) - Len(d)) : SubSeq(msg, i + 1, i + Len(d)) = d

ShowsResultView == View \in {"tabs", "success"}
ShowsErrorMsg == View = "error"

\* the resolved value is a conforming result that is invalid without errors
InvalidWithoutErrors(v) == IsFull(v) /\ ~v.isValid /\ v.errors = <<>>

\* C1: at most one analysis call is in flight at any time.
C1_AtMostOneInFlight == Len(inflight) <= 1

\* a click on Validate was made while a call was pending, and that call is
\* still the only one
C1_Witness ==
    /\ lastOp = Op("validate", "Loading")
    /\ isLoading
    /\ Len(inflight) = 1

\* C2: after a trigger made with non-blank text in a phase other than
\* Loading, the controller is loading, the call is pending with the text and
\* category of the trigger, and the held result and error are cleared.
C2_TriggerEntersLoading ==
    (lastOp.op = "validate" /\ lastOp.from # "Loading" /\ ~IsBlank(code)) =>
        /\ isLoading
        /\ analysisResult = NullValue
        /\ error = NullMsg
        /\ inflight # <<>>
        /\ inflight[Len(inflight)] = Call(code, fileType)

\* a trigger made while an error message was held
C2_Witness ==
    /\ lastOp = Op("validate", "ResolvedError")
    /\ ~IsBlank(code)
    /\ isLoading

\* C3: a trigger while the text is empty or whitespace-only changes neither
\* the loading flag, the result, the error, the text, the category nor the
\* pending calls.
C3_BlankTriggerNoOp ==
    [][(lastOp'.op = "validate" /\ IsBlank(code)) =>
         UNCHANGED <<isLoading, analysisResult, error, code, fileType, inflight>>]_vars

\* a trigger on whitespace-only text while a result was held
C3_Witness ==
    /\ lastOp = Op("validate", "ResolvedSuccess")
    /\ code # <<>>
    /\ IsBlank(code)
    /\ analysisResult # NullValue

C5_ErrorEmbedsCause ==
    (lastOp.op = "settle" /\ settled.status = "rejected") =>
        /\ ~isLoading
        /\ analysisResult = NullValue
        /\ Embeds(error, settled.cause.message)

\* C5, amended: after a rejected call the controller is not loading, holds no
\* result and holds an error message; the message contains the description
\* of the underlying failure when that failure is an Error, and the client's
\* generic description when it is any other thrown value.
C5_ErrorEmbedsCauseOfErrors ==
    (lastOp.op = "settle" /\ settled.status = "rejected") =>
        /\ ~isLoading
        /\ analysisResult = NullValue
        /\ IF settled.cause.isError
           THEN Embeds(error, settled.cause.message)
           ELSE Embeds(error, <<"An unknown error occurred while analyzing the code.">>)

\* a call rejected because of an Error, whose description is in the message
C5_Witness ==
    /\ lastOp.op = "settle"
    /\ settled.status = "rejected"
    /\ settled.cause = Thrown(TRUE, <<"fetch failed">>)
    /\ Embeds(error, <<"fetch failed">>)

C7_RejectedOrFullyPopulated ==
    /\ settled.status = "fulfilled" => IsFull(settled.value)
    /\ analysisResult # NullValue => IsFull(analysisResult)

\* C8: when a settlement brings up the tabbed result view, the selected view
\* is the error list.
C8_TabsStartOnErrors ==
    (lastOp.op = "settle" /\ View = "tabs") => activeTab = "errors"

\* C9: after a copy the acknowledgement is shown while less than 2000 ms have
\* passed since that copy, and is not shown once 2000 ms have passed and the
\* due callbacks have run.
C9_AckLastsExactlyDelay ==
    copyAge # NoAge =>
        /\ copyAge < CopyDelayMs => copied
        /\ (copyAge >= CopyDelayMs /\ (timers = <<>> \/ timers[1] > 0)) => ~copied

\* C10: an edit of the text or of the category while a call is pending
\* changes neither the loading flag, the result, the error nor the pending
\* call, which carries the text and category of its trigger; and a settlement
\* is applied whatever the text and category are by then.
C10_EditsLeaveLifecycle ==
    [][/\ (isLoading /\ lastOp'.op \in {"setCode", "setFileType"}) =>
            UNCHANGED <<isLoading, analysisResult, error, inflight>>
       /\ (lastOp'.op = "validate" /\ inflight' # inflight) =>
            inflight' = Append(inflight, Call(code, fileType))
       /\ lastOp'.op = "settle" =>
            /\ ~isLoading'
            /\ settled'.status = "fulfilled" => analysisResult' = settled'.value
            /\ settled'.status = "rejected" => error' # NullMsg]_vars

\* the text was edited while the call was pending, and the pending call
\* still carries the text of the trigger
C10_Witness ==
    /\ lastOp.op = "setCode"
    /\ isLoading
    /\ Len(inflight) = 1
    /\ inflight[1].code # code
    /\ ~IsBlank(inflight[1].code)

====
